---- MODULE Spec2Model ----
(***************************************************************************)
(* Model of solver.py: a wavefunction-collapse solver for freenet grids.   *)
(* Geometry (Position, Direction), the shape catalog, Piece, Grid and the  *)
(* driver loop of main() are translated from the source.  Python lists are *)
(* sequences (1-based here, 0-based in the source), Python sets are sets.  *)
(***************************************************************************)
EXTENDS Integers, Sequences, FiniteSets, TLC

\* ---------------------------------------------------------------- bounds
\* Largest number of cells of an input grid.
MaxCells == 4
\* Largest number of sweeps of the driver loop that the model follows.
MaxSweeps == 17
\* Largest coordinate, in absolute value, of a Direction the geometry calls start from.
MaxCoordinate == 1
\* Largest amount passed to Direction.rotate.
MaxAmount == 8
\* Largest number of geometry calls made one after the other.
MaxCalls == 2

\* -------------------------------------------------------------- geometry
\* Position(x, y) and Direction(x, y): value types compared by (x, y).
Position(x, y) == [x |-> x, y |-> y]

Direction(x, y) == [x |-> x, y |-> y]

\* Position.move
move(position, direction) ==
    Position(position.x + direction.x, position.y + direction.y)

\* opposite with `- 1` typed for `* -1`.
opposite_minus_one(direction) == Direction(direction.x - 1, direction.y - 1)

\* Direction.opposite
opposite(direction) == Direction(direction.x * (-1), direction.y * (-1))

\* rotate turning the other way: (x, y) to (y, -x).
RECURSIVE Direction_rotate_other_way(_, _)
Direction_rotate_other_way(direction, amount) ==
    LET a == amount % 4
    IN  IF a = 0
        THEN direction
        ELSE Direction_rotate_other_way(Direction(direction.y, -direction.x), a - 1)

\* Direction.rotate
RECURSIVE Direction_rotate(_, _)
Direction_rotate(direction, amount) ==
    LET a == amount % 4
    IN  IF a = 0
        THEN direction
        ELSE Direction_rotate(Direction(-direction.y, direction.x), a - 1)

LEFT == Direction(-1, 0)

UP == Direction_rotate(LEFT, 1)

RIGHT == Direction_rotate(LEFT, 2)

DOWN == Direction_rotate(LEFT, 3)

DIRECTIONS == <<LEFT, UP, RIGHT, DOWN>>

\* The elements of a Python list, as a set.
Range(list) == {list[i] : i \in DOMAIN list}

\* --------------------------------------------------------- shape catalog
\* SHAPES: name -> Shape; only the connections take part in solving.
SHAPES ==
    [name \in {"Corner", "Straight", "Tee", "End", "Edge"} |->
        CASE name = "Corner"   -> [connections |-> {LEFT, UP}]
          [] name = "Straight" -> [connections |-> {LEFT, RIGHT}]
          [] name = "Tee"      -> [connections |-> {LEFT, UP, RIGHT}]
          [] name = "End"      -> [connections |-> {LEFT}]
          [] name = "Edge"     -> [connections |-> {}]]

\* Shape.rotate
Shape_rotate(shape, rotation) ==
    {Direction_rotate(connection, rotation) : connection \in SHAPES[shape].connections}

\* ----------------------------------------------------------------- piece
\* The loop of Piece.rotational_symmetry over the remaining rotations.
RECURSIVE symmetry_loop(_, _, _, _)
symmetry_loop(shape, rotations, connections_list, valid_rotations) ==
    IF rotations = <<>>
    THEN valid_rotations
    ELSE LET connections == Shape_rotate(shape, Head(rotations))
         IN  IF connections \notin Range(connections_list)
             THEN symmetry_loop(shape, Tail(rotations),
                                Append(connections_list, connections),
                                Append(valid_rotations, Head(rotations)))
             ELSE symmetry_loop(shape, Tail(rotations),
                                connections_list, valid_rotations)

\* rotational_symmetry that keeps every rotation.
rotational_symmetry_keeps_all(shape, possible_rotations) == possible_rotations

\* Piece.rotational_symmetry: the new value of possible_rotations.
rotational_symmetry(shape, possible_rotations) ==
    symmetry_loop(shape, possible_rotations, <<>>, <<>>)

\* Piece.__init__
Piece(shape, position) ==
    [shape              |-> shape,
     rotation           |-> 0,
     position           |-> position,
     connections        |-> SHAPES[shape].connections,
     possible_rotations |-> rotational_symmetry(shape, <<0, 1, 2, 3>>)]

\* set_rotation that leaves the cached connections as they were.
set_rotation_keeps_connections(piece, rotation) ==
    [piece EXCEPT !.rotation = rotation % 4]

\* Piece.set_rotation
set_rotation(piece, rotation) ==
    [piece EXCEPT !.rotation = rotation % 4,
                  !.connections = Shape_rotate(piece.shape, rotation % 4)]

\* canconnect that looks at the connections of the piece's current rotation.
canconnect_current(piece, direction) == direction \in piece.connections

\* canconnect that tries all four rotations, the eliminated ones too.
canconnect_any_rotation(piece, direction) ==
    IF Cardinality(piece.connections) = 0
    THEN FALSE
    ELSE \E rotation \in 0..3 : direction \in Shape_rotate(piece.shape, rotation)

\* Piece.canconnect
canconnect(piece, direction) ==
    IF Cardinality(piece.connections) = 0
    THEN FALSE
    ELSE \E i \in DOMAIN piece.possible_rotations :
            direction \in Shape_rotate(piece.shape, piece.possible_rotations[i])

\* mustconnect with any() in place of all().
mustconnect_any(piece, direction) ==
    \E i \in DOMAIN piece.possible_rotations :
        direction \in Shape_rotate(piece.shape, piece.possible_rotations[i])

\* Piece.mustconnect
mustconnect(piece, direction) ==
    \A i \in DOMAIN piece.possible_rotations :
        direction \in Shape_rotate(piece.shape, piece.possible_rotations[i])

\* ------------------------------------------------------------------ grid
\* Python list indexing list[i]: 0-based, a negative i counts from the end.
index(list, i) == IF i >= 0 THEN list[i + 1] ELSE list[Len(list) + i + 1]

\* list[i] raises IndexError.
index_raises(list, i) == ~(-Len(list) <= i /\ i < Len(list))

\* The SHAPES[cell] lookups of Grid.__init__ raise KeyError.
Grid_raises(description) ==
    \E y \in DOMAIN description : \E x \in DOMAIN description[y] :
        description[y][x] \notin DOMAIN SHAPES

\* Grid.__init__: enumerate() counts x and y from 0.
Grid(description) ==
    [grid  |-> [y \in DOMAIN description |->
                  [x \in DOMAIN description[y] |->
                      Piece(description[y][x], Position(x - 1, y - 1))]],
     x_max |-> Len(description[1]),
     y_max |-> Len(description)]

\* ingrid without the lower bounds: a negative index counts from the end.
ingrid_no_lower_bound(self, position) ==
    position.x < self.x_max /\ position.y < self.y_max

\* Grid.ingrid
ingrid(self, position) ==
    LET x == position.x
        y == position.y
    IN  0 <= x /\ x < self.x_max /\ 0 <= y /\ y < self.y_max

\* Grid.piece: self.grid[position.y][position.x] raises IndexError.
piece_raises(self, position) ==
    /\ ingrid(self, position)
    /\ \/ index_raises(self.grid, position.y)
       \/ index_raises(index(self.grid, position.y), position.x)

\* Grid.piece
piece(self, position) ==
    IF ingrid(self, position)
    THEN index(index(self.grid, position.y), position.x)
    ELSE Piece("Edge", position)

\* chain.from_iterable(rows)
RECURSIVE chain(_)
chain(rows) == IF rows = <<>> THEN <<>> ELSE Head(rows) \o chain(Tail(rows))

\* Python's int has no width: a non-negative int is the list of its digits in
\* base Base, least significant first, with no leading zero digit (0 is <<>>).
Base == 10000

\* The int of a small natural number.
RECURSIVE int(_)
int(n) == IF n = 0 THEN <<>> ELSE <<n % Base>> \o int(n \div Base)

\* a * k + carry for an int a and small naturals k >= 1 and carry.
RECURSIVE int_mul_add(_, _, _)
int_mul_add(a, k, carry) ==
    IF a = <<>>
    THEN int(carry)
    ELSE LET v == Head(a) * k + carry
         IN  <<v % Base>> \o int_mul_add(Tail(a), k, v \div Base)

\* a * k
int_mul(a, k) == IF k = 0 THEN <<>> ELSE int_mul_add(a, k, 0)

\* a + k
int_add(a, k) == int_mul_add(a, 1, k)

\* a < b for ints of the same number of digits.
RECURSIVE int_lt_digits(_, _)
int_lt_digits(a, b) ==
    IF a = <<>>
    THEN FALSE
    ELSE LET i == Len(a)
         IN  IF a[i] # b[i]
             THEN a[i] < b[i]
             ELSE int_lt_digits(SubSeq(a, 1, i - 1), SubSeq(b, 1, i - 1))

\* a < b
int_lt(a, b) == IF Len(a) # Len(b) THEN Len(a) < Len(b) ELSE int_lt_digits(a, b)

\* a <= b
int_le(a, b) == a = b \/ int_lt(a, b)

\* reduce(lambda a, e: a * len(e.possible_rotations), pieces, a)
RECURSIVE reduce(_, _)
reduce(pieces, a) ==
    IF pieces = <<>>
    THEN a
    ELSE reduce(Tail(pieces), int_mul(a, Len(Head(pieces).possible_rotations)))

\* Grid.permutations
permutations(self) == reduce(chain(self.grid), int(1))

\* Grid.neighbours
neighbours(self, position) ==
    {<<DIRECTIONS[i], piece(self, move(position, DIRECTIONS[i]))>> :
        i \in DOMAIN DIRECTIONS}

\* Grid.neighbours raises IndexError from one of its piece() calls.
neighbours_raises(self, position) ==
    \E i \in DOMAIN DIRECTIONS : piece_raises(self, move(position, DIRECTIONS[i]))

\* Grid.collapse: the set valid_directions after the loop over the neighbours.
valid_directions(self, focus) ==
    {n[1] : n \in {m \in neighbours(self, focus.position) :
                      canconnect(m[2], opposite(m[1]))}}

\* Grid.collapse: the set mandatory_directions after the loop over the neighbours.
mandatory_directions(self, focus) ==
    {n[1] : n \in {m \in neighbours(self, focus.position) :
                      mustconnect(m[2], opposite(m[1]))}}

\* narrow that tests all four rotations, the eliminated ones too.
narrow_from_all(shape, rotations, valid, mandatory) ==
    LET keep(rotation) ==
            LET connections == Shape_rotate(shape, rotation)
            IN  connections \subseteq valid /\ mandatory \subseteq connections
    IN  SelectSeq(<<0, 1, 2, 3>>, keep)

\* narrow with the first subset test the wrong way round.
narrow_superset(shape, rotations, valid, mandatory) ==
    LET keep(rotation) ==
            LET connections == Shape_rotate(shape, rotation)
            IN  valid \subseteq connections /\ mandatory \subseteq connections
    IN  SelectSeq(rotations, keep)

\* Grid.collapse: the rotations of `rotations` kept by the narrowing test.
narrow(shape, rotations, valid, mandatory) ==
    LET keep(rotation) ==
            LET connections == Shape_rotate(shape, rotation)
            IN  connections \subseteq valid /\ mandatory \subseteq connections
    IN  SelectSeq(rotations, keep)

\* Grid.collapse: the list valid_rotations assigned to focus.possible_rotations.
valid_rotations(self, focus) ==
    narrow(focus.shape, focus.possible_rotations,
           valid_directions(self, focus), mandatory_directions(self, focus))

\* with_piece for rows that hold one piece object in all their places.
with_piece_shared_row(self, new) ==
    [self EXCEPT !.grid[new.position.y + 1] = [x \in DOMAIN @ |-> new]]

\* The grid with the piece at `position` (a piece object of self.grid) replaced.
with_piece(self, new) ==
    [self EXCEPT !.grid[new.position.y + 1][new.position.x + 1] = new]

\* Grid.collapse up to the assignment of focus.possible_rotations.
narrowed(self, focus) ==
    with_piece(self, [focus EXCEPT !.possible_rotations = valid_rotations(self, focus)])

\* collapse that commits the domain to the chosen rotation.
collapse_commits_domain(self, focus, rotation) ==
    with_piece(self, set_rotation([focus EXCEPT !.possible_rotations = <<rotation>>],
                                  rotation))

\* Grid.collapse when choice() returns `rotation`.
collapse(self, focus, rotation) ==
    with_piece(self,
        set_rotation([focus EXCEPT !.possible_rotations = valid_rotations(self, focus)],
                     rotation))

\* ------------------------------------------------------------------ main
VARIABLES
    description,            \* the argument of Grid(): a list of lists of shape names
    grid,                   \* the Grid object of main()
    previous_permutations,  \* main()'s local
    pc,                     \* where main() is: construct, test, sweep, done, raised
    cell,                   \* the sweep's place in [... for row in grid.grid for cell in row]
    exception,              \* the exception that ended main(), or "none"
    sweeps,                 \* history: sweeps started so far
    sweep_start,            \* history: permutations() when the last sweep started
    before,                 \* history: every piece's domain when the last sweep started
    stable,                 \* history: some sweep has left the size unchanged and not 0
    reference,              \* history: the grid of the run whose choice() takes the first
    solution,               \* a consistent assignment of connection sets, or <<>>
    receiver,               \* geometry: the Direction the calls start from
    calls,                  \* geometry: the calls made so far, each on the last result
    returned                \* geometry: what the last call returned

\* The variables of main() with their history, and those of the geometry calls.
run == <<description, grid, previous_permutations, pc, cell, exception,
         sweeps, sweep_start, before, stable, reference, solution>>

geometry == <<receiver, calls, returned>>

vars == <<run, geometry>>

\* The value of `grid` before Grid() has run.
NoGrid == [grid |-> <<>>, x_max |-> 0, y_max |-> 0]

\* The pieces in sweep order and the piece the next collapse call gets.
cells == chain(grid.grid)

focus == cells[cell]

\* Rectangular descriptions of w columns and h rows over the given names.
Rectangles(names, w, h) == [1..h -> [1..w -> names]]

\* All rectangular descriptions of at most MaxCells cells over the catalog names.
RectangularDescriptions ==
    UNION {Rectangles(DOMAIN SHAPES, w, h) :
              <<w, h>> \in {wh \in (1..MaxCells) \X (1..MaxCells) :
                              wh[1] * wh[2] <= MaxCells}}

\* No geometry call is made.
NoCalls ==
    /\ receiver = Direction(0, 0)
    /\ calls = <<>>
    /\ returned = Direction(0, 0)

\* Every piece's domain, by row.
Domains(self) ==
    [y \in DOMAIN self.grid |->
        [x \in DOMAIN self.grid[y] |-> self.grid[y][x].possible_rotations]]

\* main() has not started.
StartRun ==
    /\ grid = NoGrid
    /\ previous_permutations = int(0)
    /\ pc = "construct"
    /\ cell = 0
    /\ exception = "none"
    /\ sweeps = 0
    /\ sweep_start = int(0)
    /\ before = <<>>
    /\ stable = FALSE
    /\ reference = NoGrid

Start == StartRun /\ NoCalls

\* SAMPLE, the grid main() solves.
SAMPLE ==
    << <<"Corner", "End", "End", "End">>,
       <<"Tee", "End", "Tee", "Tee">>,
       <<"Tee", "Corner", "Straight", "End">>,
       <<"End", "Corner", "Tee", "End">> >>

\* main() on SAMPLE or on any small rectangular grid.
Init ==
    /\ description \in RectangularDescriptions \cup {SAMPLE}
    /\ solution = <<>>
    /\ Start

\* main(): grid = Grid(...); previous_permutations = grid.permutations() + 1
Construct ==
    /\ pc = "construct"
    /\ IF Grid_raises(description)
       THEN /\ pc' = "raised"
            /\ exception' = "KeyError"
            /\ UNCHANGED <<grid, previous_permutations, reference>>
       ELSE /\ grid' = Grid(description)
            /\ previous_permutations' = int_add(permutations(Grid(description)), 1)
            /\ pc' = "test"
            /\ reference' = Grid(description)
            /\ UNCHANGED exception
    /\ UNCHANGED <<description, cell, sweeps, sweep_start, before, stable, solution>>
    /\ UNCHANGED geometry

\* main(): the condition of the while loop.
LoopCondition ==
    int_lt(int(1), permutations(grid)) /\ previous_permutations # permutations(grid)

\* The sweep that has just ended left the size as it was, and not 0.
SweepUnchanged ==
    /\ sweeps >= 1
    /\ permutations(grid) = sweep_start
    /\ permutations(grid) # int(0)

\* main(): one evaluation of the while condition.
LoopTest ==
    /\ pc = "test"
    /\ LoopCondition => sweeps < MaxSweeps
    /\ IF LoopCondition
       THEN /\ pc' = "sweep"
            /\ cell' = 1
            /\ sweeps' = sweeps + 1
            /\ sweep_start' = permutations(grid)
            /\ before' = Domains(grid)
       ELSE /\ pc' = "done"
            /\ UNCHANGED <<cell, sweeps, sweep_start, before>>
    /\ stable' = (stable \/ SweepUnchanged)
    /\ UNCHANGED <<description, grid, previous_permutations, exception,
                   reference, solution>>
    /\ UNCHANGED geometry

\* Grid.collapse when choice() returns the first of the rotations left; with
\* none left, it ends with the assignment of the empty list.
collapse_first(self, piece_) ==
    IF valid_rotations(self, piece_) = <<>>
    THEN narrowed(self, piece_)
    ELSE collapse(self, piece_, valid_rotations(self, piece_)[1])

\* main(): one grid.collapse(cell) of the sweep.
Collapse ==
    /\ pc = "sweep"
    /\ IF neighbours_raises(grid, focus.position)
       THEN /\ pc' = "raised"
            /\ exception' = "IndexError"
            /\ UNCHANGED <<grid, cell, reference>>
       ELSE IF valid_rotations(grid, focus) = <<>>
       THEN \* choice([]) raises IndexError after the assignment
            /\ grid' = narrowed(grid, focus)
            /\ pc' = "raised"
            /\ exception' = "IndexError"
            /\ reference' = collapse_first(reference, chain(reference.grid)[cell])
            /\ UNCHANGED cell
       ELSE /\ \E rotation \in Range(valid_rotations(grid, focus)) :
                  grid' = collapse(grid, focus, rotation)
            /\ IF cell = Len(cells)
               THEN pc' = "test" /\ cell' = 0
               ELSE pc' = "sweep" /\ cell' = cell + 1
            /\ reference' = collapse_first(reference, chain(reference.grid)[cell])
            /\ UNCHANGED exception
    /\ UNCHANGED <<description, previous_permutations, sweeps, sweep_start,
                   before, stable, solution>>
    /\ UNCHANGED geometry

Next == Construct \/ LoopTest \/ Collapse

Spec == Init /\ [][Next]_vars

\* ------------------------------------------------- other specifications
\* Descriptions of exactly n cells whose rows are non-empty lists over names,
\* of equal length or not.
RECURSIVE Lists(_, _)
Lists(names, n) ==
    IF n = 0
    THEN {<<>>}
    ELSE UNION {{<<row>> \o rest : row \in [1..k -> names],
                                   rest \in Lists(names, n - k)} : k \in 1..n}

\* Any list of non-empty rows of at most MaxCells names.
InputDescriptions(names) == UNION {Lists(names, n) : n \in 1..MaxCells}

\* The input is any such list of catalog names and of names not in the catalog.
InitInput ==
    /\ description \in InputDescriptions(DOMAIN SHAPES \cup {"Unknown"})
    /\ solution = <<>>
    /\ Start

\* main() on any input, malformed ones included.
SpecInput == InitInput /\ [][Next]_vars

\* The connection sets a cell of the given shape at (x, y) can take in a grid of
\* w columns and h rows without pointing a connector off the grid.
LocalSets(shape, x, y, w, h) ==
    {S \in {Shape_rotate(shape, r) : r \in 0..3} :
        \A d \in S : /\ x + d.x \in 0..(w - 1)
                      /\ y + d.y \in 0..(h - 1)}

\* The assignments of connection sets to the first k cells, in row-major
\* order, of the rectangular description d, in which no connector points off
\* the grid and cells next to each other connect from both sides or from none.
RECURSIVE Assignments(_, _)
Assignments(d, k) ==
    IF k = 0
    THEN {<<>>}
    ELSE LET w == Len(d[1])
             x == (k - 1) % w
             y == (k - 1) \div w
         IN  {Append(a, S) :
                 <<a, S>> \in
                    {aS \in Assignments(d, k - 1)
                               \X LocalSets(d[y + 1][x + 1], x, y, w, Len(d)) :
                        /\ x > 0 => (([x |-> -1, y |-> 0] \in aS[2])
                                        <=> ([x |-> 1, y |-> 0] \in aS[1][k - 1]))
                        /\ y > 0 => (([x |-> 0, y |-> -1] \in aS[2])
                                        <=> ([x |-> 0, y |-> 1] \in aS[1][k - w]))}}

\* The geometrically consistent assignments of the description d.
Solutions(d) == Assignments(d, Len(d) * Len(d[1]))

InitSolvable ==
    /\ description \in RectangularDescriptions \cup {SAMPLE}
    /\ solution \in Solutions(description)
    /\ Start

\* main() on a grid that has a consistent assignment, with one of them.
SpecSolvable == InitSolvable /\ [][Next]_vars

\* Calls of Direction.rotate and Direction.opposite, each on the last result.
InitGeometry ==
    /\ description = <<>>
    /\ solution = <<>>
    /\ StartRun
    /\ receiver \in {Direction(x, y) : x \in (-MaxCoordinate)..MaxCoordinate,
                                         y \in (-MaxCoordinate)..MaxCoordinate}
    /\ calls = <<>>
    /\ returned = receiver

\* returned.rotate(amount)
Rotate ==
    /\ Len(calls) < MaxCalls
    /\ \E amount \in 0..MaxAmount :
          /\ calls' = Append(calls, <<"rotate", amount>>)
          /\ returned' = Direction_rotate(returned, amount)
    /\ UNCHANGED <<receiver, run>>

\* returned.opposite()
Opposite ==
    /\ Len(calls) < MaxCalls
    /\ calls' = Append(calls, <<"opposite">>)
    /\ returned' = opposite(returned)
    /\ UNCHANGED <<receiver, run>>

NextGeometry == Rotate \/ Opposite

SpecGeometry == InitGeometry /\ [][NextGeometry]_vars

\* ---------------------------------------------------------------- claims
\* The positions of the description's cells, as Grid.__init__ numbers them.
InBounds(position) ==
    /\ position.y \in 0..(Len(description) - 1)
    /\ position.x \in 0..(Len(description[1]) - 1)

\* The description is a rectangle of catalog names.
WellFormed ==
    /\ \A y \in DOMAIN description : Len(description[y]) = Len(description[1])
    /\ \A y \in DOMAIN description : \A x \in DOMAIN description[y] :
          description[y][x] \in DOMAIN SHAPES

\* The sum of the cells' domain sizes at construction.
RECURSIVE DomainSum(_)
DomainSum(names) ==
    IF names = <<>>
    THEN 0
    ELSE Len(Piece(Head(names), Position(0, 0)).possible_rotations)
         + DomainSum(Tail(names))

Constructed == pc \in {"test", "sweep", "done"} \/ (pc = "raised" /\ sweeps > 0)

\* C1: the driver loop terminates after at most as many sweeps as the sum of
\* the initial per-cell domain sizes: it never starts more sweeps than that.
C1_SweepsWithinDomainSum == sweeps <= DomainSum(chain(description))

\* C2: the driver never starts another sweep after a sweep that left the
\* solution-space size unchanged, nor after the size has reached 1.
C2_StopsAfterUnchangedSweep ==
    [][(/\ pc = "test"
        /\ sweeps >= 1
        /\ (permutations(grid) = sweep_start \/ permutations(grid) = int(1)))
       => pc' # "sweep"]_vars

\* C3: when the narrowing of collapse(focus) leaves no admissible rotation,
\* collapse reports Unsatisfiable or keeps the previous rotation; it does not
\* abort and it does not leave the cell with an empty domain.
C3_EmptyDomainHandled ==
    [][(/\ pc = "sweep"
        /\ ~neighbours_raises(grid, focus.position)
        /\ valid_rotations(grid, focus) = <<>>)
       => \/ pc' = "Unsatisfiable"
          \/ /\ pc' # "raised"
             /\ cells'[cell].rotation = focus.rotation
             /\ cells'[cell].possible_rotations # <<>>]_vars

\* C4: on the 1x1 grid of one End piece the driver never fails, the End piece
\* keeps its 4 rotations, the size never reaches 1 and the loop ends after
\* the first sweep without change.
C4_SingleEndConverges ==
    description = << <<"End">> >> =>
        /\ exception = "none"
        /\ sweeps <= 1
        /\ Constructed => /\ Len(grid.grid[1][1].possible_rotations) = 4
                          /\ permutations(grid) # int(1)

\* C5: on SAMPLE, whatever choice() returns, no collapse fails or empties a
\* domain, no sweep leaves the size unchanged above 1, and the driver ends
\* with every cell's domain a single rotation.
C5_SampleConverges ==
    description = SAMPLE =>
        /\ exception = "none"
        /\ Constructed => \A i \in DOMAIN cells : cells[i].possible_rotations # <<>>
        /\ (pc = "test" /\ sweeps >= 1 /\ permutations(grid) = sweep_start)
              => permutations(grid) = int(1)
        /\ pc = "done" =>
              /\ permutations(grid) = int(1)
              /\ \A i \in DOMAIN cells : Len(cells[i].possible_rotations) = 1

C5_Witness ==
    /\ description = SAMPLE
    /\ pc = "done"
    /\ sweeps = 2
    /\ permutations(grid) = int(1)

\* C6: every step leaves each piece's domain a subset of what it was, so the
\* size never grows and is, after a sweep, at most what it was before it.
C6_DomainsNeverGrow ==
    [][Constructed =>
        /\ \A y \in DOMAIN grid.grid : \A x \in DOMAIN grid.grid[y] :
              Range(grid'.grid[y][x].possible_rotations)
                  \subseteq Range(grid.grid[y][x].possible_rotations)
        /\ int_le(permutations(grid'), permutations(grid))
        /\ pc' = "test" => int_le(permutations(grid'), sweep_start')]_vars

C6_Witness ==
    /\ pc = "test"
    /\ sweeps >= 1
    /\ int_lt(permutations(grid), sweep_start)
    /\ int_lt(int(1), permutations(grid))

\* C7: in every state of the driver the solution-space size is at least 1
\* and no piece of the grid has an empty domain.
C7_SizePositive ==
    Constructed =>
        /\ int_le(int(1), permutations(grid))
        /\ \A i \in DOMAIN cells : cells[i].possible_rotations # <<>>

\* C8: a description with an unknown shape name or with rows of unequal
\* length is rejected at construction: no sweep is started on it.
C8_MalformedRejected ==
    ~WellFormed => (pc = "construct" \/ (pc = "raised" /\ sweeps = 0))

\* C9: the piece at any position outside the grid neither can nor must
\* connect in any direction, and no collapse gets an off-grid direction in
\* validDirections or mandatoryDirections.
C9_SentinelNeverConnects ==
    Constructed =>
        /\ \A x \in (-1)..grid.x_max : \A y \in (-1)..grid.y_max :
              ~InBounds(Position(x, y)) =>
                  \A i \in DOMAIN DIRECTIONS :
                      /\ ~canconnect(piece(grid, Position(x, y)), DIRECTIONS[i])
                      /\ ~mustconnect(piece(grid, Position(x, y)), DIRECTIONS[i])
        /\ \A c \in DOMAIN cells : \A i \in DOMAIN DIRECTIONS :
              ~InBounds(move(cells[c].position, DIRECTIONS[i])) =>
                  /\ DIRECTIONS[i] \notin valid_directions(grid, cells[c])
                  /\ DIRECTIONS[i] \notin mandatory_directions(grid, cells[c])

C9_Witness ==
    /\ pc = "sweep"
    /\ cell >= 2
    /\ grid.x_max # grid.y_max
    /\ valid_directions(grid, focus) # {}
    /\ mandatory_directions(grid, focus) # {}
    /\ \E i \in DOMAIN DIRECTIONS : ~InBounds(move(focus.position, DIRECTIONS[i]))

\* C10: right after construction a piece's domain lists the rotations whose
\* connection set no smaller rotation gives: 2 for Straight, 4 for Corner,
\* Tee and End, 1 for the Edge sentinel.
C10_InitialDomains ==
    (pc = "test" /\ sweeps = 0) =>
        /\ \A i \in DOMAIN cells :
              LET p == cells[i]
              IN  /\ p.shape = "Straight" => p.possible_rotations = <<0, 1>>
                  /\ p.shape \in {"Corner", "Tee", "End"}
                        => p.possible_rotations = <<0, 1, 2, 3>>
                  /\ \A r \in 0..3 :
                        r \in Range(p.possible_rotations)
                            <=> \A q \in 0..(r - 1) :
                                   Shape_rotate(p.shape, q) # Shape_rotate(p.shape, r)
        /\ piece(grid, Position(-1, 0)).possible_rotations = <<0>>

C10_Witness ==
    /\ pc = "test"
    /\ sweeps = 0
    /\ \E i \in DOMAIN cells : cells[i].shape = "Straight"
    /\ \E i \in DOMAIN cells : cells[i].shape = "Tee"

\* The step (dx, dy) -> (-dy, dx) applied n times.
RECURSIVE Steps(_, _)
Steps(d, n) == IF n = 0 THEN d ELSE Steps([x |-> -d.y, y |-> d.x], n - 1)

\* C11: d.rotate(n) is the step (dx,dy) -> (-dy,dx) applied n mod 4 times, so
\* d.rotate(n+4) = d.rotate(n), d.rotate(4) = d.rotate(0) = d, and LEFT
\* rotated by 1, 2, 3 is UP (0,-1), RIGHT (1,0), DOWN (0,1).
C11_RotateIsStepsMod4 ==
    (Len(calls) >= 1 /\ calls[1][1] = "rotate") =>
        LET n == calls[1][2]
        IN  /\ Len(calls) = 1 =>
                /\ returned = Steps(receiver, n % 4)
                /\ n \in {0, 4} => returned = receiver
                /\ n >= 4 => returned = Direction_rotate(receiver, n - 4)
                /\ receiver = [x |-> -1, y |-> 0] =>
                      /\ n = 1 => returned = [x |-> 0, y |-> -1]
                      /\ n = 2 => returned = [x |-> 1, y |-> 0]
                      /\ n = 3 => returned = [x |-> 0, y |-> 1]
            /\ (Len(calls) = 2 /\ calls[2][1] = "rotate") =>
                returned = Steps(receiver, (n + calls[2][2]) % 4)

C11_Witness ==
    /\ calls = << <<"rotate", 7>> >>
    /\ receiver = [x |-> -1, y |-> 0]
    /\ returned = [x |-> 0, y |-> 1]

\* C12: d.opposite().opposite() = d for every direction d.
C12_OppositeInvolution ==
    calls = << <<"opposite">>, <<"opposite">> >> => returned = receiver

C12_Witness ==
    /\ calls = << <<"opposite">>, <<"opposite">> >>
    /\ receiver = [x |-> -1, y |-> 1]
    /\ returned = receiver

\* The connection sets that the piece at position q may still take: those of
\* the rotations of its domain, and only the empty one outside the grid.
Candidates(q) ==
    IF InBounds(q)
    THEN LET n == grid.grid[q.y + 1][q.x + 1]
         IN  {Shape_rotate(n.shape, r) : r \in Range(n.possible_rotations)}
    ELSE {{}}

\* The directions in which the neighbour of position p connects back for some
\* rotation of its domain, and for every rotation of its domain.
ValidAt(p) ==
    {d \in Range(DIRECTIONS) :
        \E S \in Candidates([x |-> p.x + d.x, y |-> p.y + d.y]) :
            [x |-> -d.x, y |-> -d.y] \in S}

MandatoryAt(p) ==
    {d \in Range(DIRECTIONS) :
        \A S \in Candidates([x |-> p.x + d.x, y |-> p.y + d.y]) :
            [x |-> -d.x, y |-> -d.y] \in S}

\* C13: collapse(focus) leaves in focus's domain exactly the rotations of its
\* previous domain whose connection set lies within validDirections and
\* contains mandatoryDirections; the commit does not cut it down further.
C13_CollapseNarrowsExactly ==
    [][pc = "sweep" =>
        LET Keeps(r) ==
                /\ Shape_rotate(focus.shape, r) \subseteq ValidAt(focus.position)
                /\ MandatoryAt(focus.position) \subseteq Shape_rotate(focus.shape, r)
        IN  cells'[cell].possible_rotations
                = SelectSeq(focus.possible_rotations, Keeps)]_vars

C13_Witness ==
    /\ sweeps >= 1
    /\ \E i \in DOMAIN cells :
          /\ cells[i].shape = "End"
          /\ Len(cells[i].possible_rotations) = 2
          /\ cells[i].rotation = cells[i].possible_rotations[2]

\* C14: on a grid with a consistent assignment, every cell's domain keeps a
\* rotation that gives the cell its connection set of the assignment, so no
\* domain becomes empty and no collapse fails.
C14_SolutionsSurvive ==
    /\ exception = "none"
    /\ Constructed =>
          \A i \in DOMAIN cells :
              \E r \in Range(cells[i].possible_rotations) :
                  Shape_rotate(cells[i].shape, r) = solution[i]

C14_Witness ==
    /\ pc = "test"
    /\ sweeps >= 2
    /\ permutations(grid) = int(16)
    /\ solution[1] = {[x |-> 0, y |-> 1]}

\* Every connector of the pieces' cached connections points at a cell of the
\* grid whose cached connections hold the connector back.
Consistent ==
    \A i \in DOMAIN cells : \A d \in cells[i].connections :
        LET q == [x |-> cells[i].position.x + d.x, y |-> cells[i].position.y + d.y]
        IN  /\ InBounds(q)
            /\ [x |-> -d.x, y |-> -d.y] \in grid.grid[q.y + 1][q.x + 1].connections

\* C15: when a sweep has ended with no domain empty and the size is 1, the
\* committed rotations are geometrically consistent.
C15_SizeOneIsConsistent ==
    (/\ pc \in {"test", "done"}
     /\ sweeps >= 1
     /\ permutations(grid) = int(1))
        => Consistent

C15_Witness ==
    /\ pc = "done"
    /\ sweeps = 2
    /\ description # SAMPLE
    /\ permutations(grid) = int(1)
    /\ Consistent

\* C16: the domains do not depend on what choice() returns: after the same
\* collapse calls every piece has the domain it has in the run whose choice()
\* always takes the first rotation, and so have any two runs; the size, the
\* sweeps and an empty domain come the same in all of them.
C16_DomainsIgnoreChoices ==
    /\ Domains(grid) = Domains(reference)
    /\ permutations(grid) = permutations(reference)

C16_Witness ==
    /\ pc = "test"
    /\ sweeps >= 2
    /\ \E i \in DOMAIN cells : cells[i].rotation # chain(reference.grid)[i].rotation
    /\ Domains(grid) = Domains(reference)

\* C17: every collapse call sets focus's rotation to a rotation of its
\* narrowed domain, so every piece's rotation is in its domain in every state
\* from construction on.
C17_RotationInDomain ==
    Constructed =>
        \A i \in DOMAIN cells : cells[i].rotation \in Range(cells[i].possible_rotations)

\* C18: every piece's cached connections are shape.rotate(rotation), and its
\* rotation is one of 0..3, in every state from construction on.
C18_ConnectionsCached ==
    Constructed =>
        \A i \in DOMAIN cells :
            /\ cells[i].rotation \in 0..3
            /\ cells[i].connections = Shape_rotate(cells[i].shape, cells[i].rotation)

C18_Witness ==
    /\ pc = "sweep"
    /\ cell >= 2
    /\ cells[1].rotation = 3
    /\ cells[1].connections = {[x |-> 0, y |-> 1]}

\* C19: a collapse call changes nothing but focus's domain, rotation and
\* connections: every other piece, every position and shape and the grid's
\* dimensions stay as they were.
C19_CollapseFrame ==
    [][pc = "sweep" =>
        /\ grid'.x_max = grid.x_max
        /\ grid'.y_max = grid.y_max
        /\ DOMAIN grid'.grid = DOMAIN grid.grid
        /\ \A y \in DOMAIN grid.grid :
              /\ DOMAIN grid'.grid[y] = DOMAIN grid.grid[y]
              /\ \A x \in DOMAIN grid.grid[y] :
                    /\ grid'.grid[y][x].position = grid.grid[y][x].position
                    /\ grid'.grid[y][x].shape = grid.grid[y][x].shape
                    /\ grid.grid[y][x].position # focus.position
                          => grid'.grid[y][x] = grid.grid[y][x]]_vars

C19_Witness ==
    /\ pc = "sweep"
    /\ cell = 2
    /\ sweeps = 1
    /\ Len(cells) >= 3
    /\ cells[1].rotation # 0
    /\ cells[3] = Piece(description[(2 \div grid.x_max) + 1][(2 % grid.x_max) + 1],
                         cells[3].position)

\* C20: a sweep that leaves the size unchanged, and not 0, has left every
\* domain unchanged, and so does every sweep after it.
C20_UnchangedSweepIsFixedPoint ==
    /\ (pc = "test" /\ SweepUnchanged) => Domains(grid) = before
    /\ stable => Domains(grid) = before

C20_Witness ==
    /\ stable
    /\ pc = "test"
    /\ sweeps >= 3
    /\ Domains(grid) = before
    /\ int_lt(int(1), permutations(grid))

====
